---- MODULE Spec2Model ----
(***************************************************************************)
(* HudiJniReader (be/src/vec/exec/scan/hudi_jni_reader.cpp): the adapter    *)
(* that presents a reader hosted in the JVM as a block-producing source.    *)
(* The model holds one adapter, the connector it drives and the remote      *)
(* reader behind it.  C++ strings are TLA+ strings; concatenation is \o.    *)
(***************************************************************************)
EXTENDS Integers, Sequences, FiniteSets, TLC

\* ------------------------------------------------------------------ bounds
\* Data batches the remote stream can deliver before end-of-stream.
MaxBatches == 3
\* Largest row count of one batch.
MaxRows == 2
\* get_next_block calls of one adapter lifetime.
MaxNextCalls == 5
\* init_reader calls of one adapter lifetime.
MaxInitCalls == 2

\* --------------------------------------------------------------- statuses
OK == "OK"
InitError == "InitError"
OpenError == "OpenError"
ReadError == "ReadError"
CloseError == "CloseError"
InvalidState == "InvalidState"

\* ------------------------------------------------------ Parameter Assembler
HADOOP_FS_PREFIX == "hadoop_fs."

ReservedKeys ==
    {"base_path", "data_file_path", "data_file_length", "delta_file_paths",
     "hudi_column_names", "hudi_column_types", "required_fields",
     "instant_time", "serde", "input_format"}

Digit(d) ==
    CASE d = 0 -> "0" [] d = 1 -> "1" [] d = 2 -> "2" [] d = 3 -> "3"
      [] d = 4 -> "4" [] d = 5 -> "5" [] d = 6 -> "6" [] d = 7 -> "7"
      [] d = 8 -> "8" [] d = 9 -> "9"

RECURSIVE Decimal(_)
Decimal(n) == IF n < 10 THEN Digit(n) ELSE Decimal(n \div 10) \o Digit(n % 10)

\* std::to_string of a signed integer.
to_string(n) == IF n < 0 THEN "-" \o Decimal(-n) ELSE Decimal(n)

\* join(vector, delimiter): the elements with the delimiter between them.
RECURSIVE join(_, _)
join(v, delim) ==
    IF Len(v) = 0 THEN ""
    ELSE IF Len(v) = 1 THEN v[1]
    ELSE v[1] \o delim \o join(Tail(v), delim)

\* Mutant: the column names collected back to front.
required_fields_Reversed(descs) ==
    [i \in 1..Len(descs) |-> descs[Len(descs) + 1 - i].col_name]

\* The loop of lines 50-52: the column name of every slot descriptor, in order.
required_fields(descs) == [i \in 1..Len(descs) |-> descs[i].col_name]

\* std::map built from an initializer list: a key already present is kept.
RECURSIVE MapFromList(_)
MapFromList(l) ==
    IF Len(l) = 0 THEN <<>>
    ELSE LET m == MapFromList(SubSeq(l, 1, Len(l) - 1))
             e == l[Len(l)]
         IN  IF e[1] \in DOMAIN m THEN m
             ELSE [k \in DOMAIN m \cup {e[1]} |-> IF k = e[1] THEN e[2] ELSE m[k]]

\* params[key] = value of std::map: insert, or overwrite the entry of the key.
MapAssign(m, key, value) ==
    [k \in DOMAIN m \cup {key} |-> IF k = key THEN value ELSE m[k]]

\* Mutant: the initializer list with the column types joined by a comma.
ReservedEntries_CommaTypes(hudi, descs) ==
    << <<"base_path", hudi.base_path>>,
       <<"data_file_path", hudi.data_file_path>>,
       <<"data_file_length", to_string(hudi.data_file_length)>>,
       <<"delta_file_paths", join(hudi.delta_logs, ",")>>,
       <<"hudi_column_names", join(hudi.column_names, ",")>>,
       <<"hudi_column_types", join(hudi.column_types, ",")>>,
       <<"required_fields", join(required_fields(descs), ",")>>,
       <<"instant_time", hudi.instant_time>>,
       <<"serde", hudi.serde>>,
       <<"input_format", hudi.input_format>> >>

\* The initializer list of lines 54-64.
ReservedEntries(hudi, descs) ==
    << <<"base_path", hudi.base_path>>,
       <<"data_file_path", hudi.data_file_path>>,
       <<"data_file_length", to_string(hudi.data_file_length)>>,
       <<"delta_file_paths", join(hudi.delta_logs, ",")>>,
       <<"hudi_column_names", join(hudi.column_names, ",")>>,
       <<"hudi_column_types", join(hudi.column_types, "#")>>,
       <<"required_fields", join(required_fields(descs), ",")>>,
       <<"instant_time", hudi.instant_time>>,
       <<"serde", hudi.serde>>,
       <<"input_format", hudi.input_format>> >>

\* Mutant: the storage property stored under its own key.
StorageKey_NoPrefix(key) == key

\* The key under which line 68 stores a storage property.
StorageKey(key) == HADOOP_FS_PREFIX \o key

\* The loop of lines 67-69 over the storage properties still to copy.
RECURSIVE CopyProperties(_, _, _)
CopyProperties(m, props, todo) ==
    IF todo = {} THEN m
    ELSE LET k == CHOOSE x \in todo : TRUE
         IN  CopyProperties(MapAssign(m, StorageKey(k), props[k]), props, todo \ {k})

\* The ParameterMap of lines 49-69.
AssembleParams(scan, hudi, descs) ==
    CopyProperties(MapFromList(ReservedEntries(hudi, descs)),
                   scan.properties, DOMAIN scan.properties)

\* ------------------------------------------------------------ Bridge Handle
\* The connector before the adapter is constructed.
NoConnector ==
    [state |-> "null", init |-> 0, open |-> 0, next |-> 0, close |-> 0, delivered |-> 0]

\* The connector as line 99 leaves it: the remote reader exists, nothing was
\* called on it.
NewConnector == [NoConnector EXCEPT !.state = "constructed"]

\* _jni_connector->init: legal in state constructed only; res is the remote
\* reader's answer.
JniInit(c, res) ==
    IF c.state # "constructed" THEN [conn |-> c, st |-> InvalidState]
    ELSE [conn |-> [c EXCEPT !.init = @ + 1,
                             !.state = IF res = OK THEN "initialized" ELSE @],
          st |-> res]

\* _jni_connector->open: legal in state initialized only.
JniOpen(c, res) ==
    IF c.state # "initialized" THEN [conn |-> c, st |-> InvalidState]
    ELSE [conn |-> [c EXCEPT !.open = @ + 1,
                             !.state = IF res = OK THEN "opened" ELSE @],
          st |-> res]

\* _jni_connector->get_nex_block: legal in states opened and draining; nb is
\* the remote reader's answer [st, rows, eof], written to the out-parameters
\* on success only.
JniGetNexBlock(c, out, nb) ==
    IF c.state \notin {"opened", "draining"}
    THEN [conn |-> c, out |-> out, st |-> InvalidState]
    ELSE IF nb.st # OK
    THEN [conn |-> [c EXCEPT !.next = @ + 1], out |-> out, st |-> nb.st]
    ELSE [conn |-> [c EXCEPT !.next = @ + 1, !.state = "draining",
                             !.delivered = IF nb.eof THEN @ ELSE @ + 1],
          out |-> [read_rows |-> nb.rows, eof |-> nb.eof],
          st |-> OK]

\* Mutant: close without the guard that makes a second close a no-op.
JniCloseUnguarded(c, res) ==
    [conn |-> [c EXCEPT !.close = @ + 1, !.state = "closed"], st |-> res]

\* _jni_connector->close: releases the remote reader from any state that is
\* not closed; on a closed connector it does nothing and reports no error.
JniClose(c, res) ==
    IF c.state = "closed" THEN [conn |-> c, st |-> OK]
    ELSE [conn |-> [c EXCEPT !.close = @ + 1, !.state = "closed"], st |-> res]

\* One connector method the adapter invoked, with the status it returned.
Call(op, st) == [op |-> op, st |-> st]

\* ---------------------------------------------------------- Scanner Adapter
\* Mutant: init_reader without RETURN_IF_ERROR around init.
init_reader_IgnoreInit(c, ri, ro) ==
    LET a == JniInit(c, ri)
        b == JniOpen(a.conn, ro)
    IN  [conn |-> b.conn, st |-> b.st,
         calls |-> <<Call("init", a.st), Call("open", b.st)>>]

\* HudiJniReader::init_reader, lines 119-124.  ri and ro are the remote
\* reader's answers to init and open.
init_reader(c, ri, ro) ==
    LET a == JniInit(c, ri)
    IN  IF a.st # OK
        THEN [conn |-> a.conn, st |-> a.st, calls |-> <<Call("init", a.st)>>]
        ELSE LET b == JniOpen(a.conn, ro)
             IN  [conn |-> b.conn, st |-> b.st,
                  calls |-> <<Call("init", a.st), Call("open", b.st)>>]

\* Mutant: get_next_block without the close on end-of-stream.
get_next_block_NoClose(c, out, nb, rc) ==
    LET a == JniGetNexBlock(c, out, nb)
    IN  [conn |-> a.conn, out |-> a.out, st |-> a.st,
         calls |-> <<Call("get_nex_block", a.st)>>]

\* Mutant: get_next_block that drops the status of close.
get_next_block_IgnoreClose(c, out, nb, rc) ==
    LET a == JniGetNexBlock(c, out, nb)
    IN  IF a.st # OK
        THEN [conn |-> a.conn, out |-> a.out, st |-> a.st,
              calls |-> <<Call("get_nex_block", a.st)>>]
        ELSE IF a.out.eof
        THEN LET b == JniClose(a.conn, rc)
             IN  [conn |-> b.conn, out |-> a.out, st |-> OK,
                  calls |-> <<Call("get_nex_block", a.st), Call("close", b.st)>>]
        ELSE [conn |-> a.conn, out |-> a.out, st |-> OK,
              calls |-> <<Call("get_nex_block", a.st)>>]

\* Mutant: get_next_block that closes after every successful read.
get_next_block_AlwaysClose(c, out, nb, rc) ==
    LET a == JniGetNexBlock(c, out, nb)
    IN  IF a.st # OK
        THEN [conn |-> a.conn, out |-> a.out, st |-> a.st,
              calls |-> <<Call("get_nex_block", a.st)>>]
        ELSE LET b == JniClose(a.conn, rc)
             IN  [conn |-> b.conn, out |-> a.out, st |-> b.st,
                  calls |-> <<Call("get_nex_block", a.st), Call("close", b.st)>>]

\* Mutant: get_next_block with the end-of-stream test inverted.
get_next_block_NegatedEof(c, out, nb, rc) ==
    LET a == JniGetNexBlock(c, out, nb)
    IN  IF a.st # OK
        THEN [conn |-> a.conn, out |-> a.out, st |-> a.st,
              calls |-> <<Call("get_nex_block", a.st)>>]
        ELSE IF ~a.out.eof
        THEN LET b == JniClose(a.conn, rc)
             IN  [conn |-> b.conn, out |-> a.out, st |-> b.st,
                  calls |-> <<Call("get_nex_block", a.st), Call("close", b.st)>>]
        ELSE [conn |-> a.conn, out |-> a.out, st |-> OK,
              calls |-> <<Call("get_nex_block", a.st)>>]

\* Mutant: get_next_block without RETURN_IF_ERROR around get_nex_block.
get_next_block_SwallowRead(c, out, nb, rc) ==
    LET a == JniGetNexBlock(c, out, nb)
    IN  IF a.st = OK /\ a.out.eof
        THEN LET b == JniClose(a.conn, rc)
             IN  [conn |-> b.conn, out |-> a.out, st |-> b.st,
                  calls |-> <<Call("get_nex_block", a.st), Call("close", b.st)>>]
        ELSE [conn |-> a.conn, out |-> a.out, st |-> OK,
              calls |-> <<Call("get_nex_block", a.st)>>]

\* Mutant: get_next_block that clears *eof once the connector is closed.
get_next_block_ClearEof(c, out, nb, rc) ==
    LET a == JniGetNexBlock(c, out, nb)
    IN  IF a.st # OK
        THEN [conn |-> a.conn, out |-> a.out, st |-> a.st,
              calls |-> <<Call("get_nex_block", a.st)>>]
        ELSE IF a.out.eof
        THEN LET b == JniClose(a.conn, rc)
             IN  [conn |-> b.conn,
                  out |-> [a.out EXCEPT !.eof = (b.st # OK)], st |-> b.st,
                  calls |-> <<Call("get_nex_block", a.st), Call("close", b.st)>>]
        ELSE [conn |-> a.conn, out |-> a.out, st |-> OK,
              calls |-> <<Call("get_nex_block", a.st)>>]

\* HudiJniReader::get_next_block, lines 103-109.  out holds the caller's
\* read_rows and eof; nb and rc are the remote reader's answers to nextBlock
\* and close.
get_next_block(c, out, nb, rc) ==
    LET a == JniGetNexBlock(c, out, nb)
    IN  IF a.st # OK
        THEN [conn |-> a.conn, out |-> a.out, st |-> a.st,
              calls |-> <<Call("get_nex_block", a.st)>>]
        ELSE IF a.out.eof
        THEN LET b == JniClose(a.conn, rc)
             IN  [conn |-> b.conn, out |-> a.out, st |-> b.st,
                  calls |-> <<Call("get_nex_block", a.st), Call("close", b.st)>>]
        ELSE [conn |-> a.conn, out |-> a.out, st |-> OK,
              calls |-> <<Call("get_nex_block", a.st)>>]

\* Mutant: insert_or_assign instead of emplace.
Emplace_Overwrite(m, name, type) ==
    [k \in DOMAIN m \cup {name} |-> IF k = name THEN type ELSE m[k]]

\* name_to_type->emplace(name, type): a name already present keeps its type.
Emplace(m, name, type) ==
    IF name \in DOMAIN m THEN m
    ELSE [k \in DOMAIN m \cup {name} |-> IF k = name THEN type ELSE m[k]]

\* The loop of lines 113-115 over the first n slot descriptors.
RECURSIVE EmplaceAll(_, _, _)
EmplaceAll(m, descs, n) ==
    IF n = 0 THEN m
    ELSE LET d == descs[n]
         IN  Emplace(EmplaceAll(m, descs, n - 1), d.col_name, d.type)

\* Mutant: get_columns that empties missing_cols before returning.
get_columns_ClearMissing(descs, n2t, missing) ==
    [name_to_type |-> EmplaceAll(n2t, descs, Len(descs)),
     missing_cols |-> {},
     st |-> OK,
     calls |-> <<>>]

\* HudiJniReader::get_columns, lines 111-117.
get_columns(descs, n2t, missing) ==
    [name_to_type |-> EmplaceAll(n2t, descs, Len(descs)),
     missing_cols |-> missing,
     st |-> OK,
     calls |-> <<>>]

\* ------------------------------------------------------------------- state
VARIABLES
    adapter,                  \* "none", "alive", "destroyed", or, when the other
                              \* runtime failed construction, "broken" or "crashed"
    _scan_params,             \* TFileScanRangeParams: [properties]
    _hudi_params,             \* THudiFileDesc
    _file_slot_descs,         \* sequence of [col_name, type]
    params,                   \* the assembled map, copied into hashmap_object
    jvm,                      \* what construction did in the other runtime
    _jni_connector,           \* the connector and the remote reader's counters
    _colname_to_value_range,  \* "nullptr" or the caller's map last stored
    colname_to_value_range,   \* the caller's predicate maps, by name
    forwarded,                \* the map last handed to _jni_connector->init
    read_rows, eof,           \* the caller's out-parameters of get_next_block
    produced,                 \* what nextBlock answered in the last call, if asked
    name_to_type,             \* the caller's out-parameters of get_columns
    missing_cols,
    lastOp, lastStatus,       \* the last adapter call and what it returned
    calls,                    \* connector methods invoked by the last call
    init_reader_calls,        \* adapter calls made so far
    get_next_block_calls,
    errors                    \* the error statuses adapter calls have returned

vars ==
    <<adapter, _scan_params, _hudi_params, _file_slot_descs, params, jvm,
      _jni_connector, _colname_to_value_range, colname_to_value_range,
      forwarded, read_rows, eof, produced, name_to_type, missing_cols,
      lastOp, lastStatus, calls, init_reader_calls, get_next_block_calls,
      errors>>

\* What the constructor is given and never changes.
inputs == <<_scan_params, _hudi_params, _file_slot_descs>>

\* ------------------------------------------------------------------ inputs
Slot(n, t) == [col_name |-> n, type |-> t]

\* The scan range of the specification's scenario.
ScenarioHudi ==
    [base_path |-> "/t", data_file_path |-> "/t/f.parquet", data_file_length |-> 1024,
     delta_logs |-> <<"/t/.log1", "/t/.log2">>,
     column_names |-> <<"id", "name">>, column_types |-> <<"int", "string">>,
     instant_time |-> "20230101", serde |-> "serde", input_format |-> "fmt"]

\* Storage properties: the keys include reserved key names and a key that
\* already carries the prefix.
PropertyKeys == {"base_path", "serde", "fs.s3a.key", "hadoop_fs.base_path"}
PropertyValues == {"/u", "v"}
PropertyMaps ==
    UNION {[ks -> PropertyValues] : ks \in SUBSET PropertyKeys}

SlotLists ==
    {<<>>, <<Slot("id", "int")>>, <<Slot("name", "string"), Slot("id", "int")>>,
     <<Slot("id", "int"), Slot("id", "string")>>,
     <<Slot("c", "int"), Slot("a", "string")>>}

HudiDescs ==
    {ScenarioHudi,
     [ScenarioHudi EXCEPT !.delta_logs = <<>>, !.data_file_length = 0,
                          !.base_path = "hadoop_fs.", !.serde = ""],
     [ScenarioHudi EXCEPT !.column_names = <<>>, !.column_types = <<>>,
                          !.delta_logs = <<"/t/.log1">>, !.data_file_length = 907],
     [ScenarioHudi EXCEPT !.column_names = <<"a,b", "c">>,
                          !.column_types = <<"decimal(10,2)", "x#y">>],
     [ScenarioHudi EXCEPT !.column_names = <<"a", "b", "c">>,
                          !.column_types = <<"map<int,int>", "", "int">>]}

\* The caller's maps before the first get_columns call.
CallerMaps == {<<>>, [k \in {"id"} |-> "string"]}
CallerMissing == {{}, {"ghost"}}

\* The predicate maps the query layer owns: column name to value range.
CallerRanges ==
    [m \in {"ranges_a", "ranges_b"} |->
        IF m = "ranges_a" THEN [c \in {"id"} |-> "[1,9]"] ELSE <<>>]

\* Inputs of the lifecycle specification.
LifecycleInputs ==
    [scan : {[properties |-> [k \in {"fs.s3a.key"} |-> "v"]]},
     hudi : {ScenarioHudi},
     descs : {<<Slot("id", "int")>>}]

\* Inputs of the assembler specification.
AssemblerInputs ==
    [scan : {[properties |-> p] : p \in PropertyMaps},
     hudi : HudiDescs,
     descs : SlotLists]

\* Nothing has been created in the other runtime yet.
NoJvmObjects == [loader_lookups |-> 0, instances |-> 0, received |-> <<>>]

\* The remote reader was not asked for a batch.
NoAnswer == [st |-> "none", rows |-> 0, eof |-> FALSE]

InitWith(ins) ==
    /\ adapter = "none"
    /\ \E i \in ins :
        /\ _scan_params = i.scan
        /\ _hudi_params = i.hudi
        /\ _file_slot_descs = i.descs
    /\ params = <<>>
    /\ jvm = NoJvmObjects
    /\ _jni_connector = NoConnector
    /\ _colname_to_value_range = "nullptr"
    /\ colname_to_value_range = CallerRanges
    /\ forwarded = "nullptr"
    /\ read_rows = 0
    /\ eof = FALSE
    /\ produced = NoAnswer
    /\ name_to_type \in CallerMaps
    /\ missing_cols \in CallerMissing
    /\ lastOp = "none"
    /\ lastStatus = OK
    /\ calls = <<>>
    /\ init_reader_calls = 0
    /\ get_next_block_calls = 0
    /\ errors = {}

Init == InitWith(LifecycleInputs)

AssemblerInit == InitWith(AssemblerInputs)

\* ----------------------------------------------------------------- actions
\* What the remote reader may answer to nextBlock: an error, a batch while the
\* stream has one, or end-of-stream.
NextAnswers(c) ==
    {[st |-> ReadError, rows |-> 0, eof |-> FALSE]}
    \cup {[st |-> OK, rows |-> 0, eof |-> TRUE]}
    \cup (IF c.delivered < MaxBatches
          THEN {[st |-> OK, rows |-> r, eof |-> FALSE] : r \in 1..MaxRows}
          ELSE {})

\* The parameter types of the scanner constructor line 81 resolves,
\* "(ILjava/util/Map;)V".
ScannerCtorSignature == <<"I", "Ljava/util/Map;">>

\* The arguments line 99 gives NewObject after the constructor: hashmap_object.
ScannerCtorArguments(hashmap_object) ==
    <<[type |-> "Ljava/util/Map;", val |-> hashmap_object]>>

\* The value of a parameter that was given no argument of its type.
Indeterminate == [indeterminate |-> "value"]

\* What a constructor of parameter types sig receives from NewObject with
\* the arguments args: a parameter receives the argument at its position when
\* that argument has its type; otherwise what it receives is undefined, an
\* object parameter possibly an object that was passed at another position.
NewObjectReceives(sig, args) ==
    {r \in [1..Len(sig) ->
               {Indeterminate} \cup {args[j].val : j \in 1..Len(args)}] :
        \A i \in 1..Len(sig) :
            IF i <= Len(args) /\ args[i].type = sig[i]
            THEN r[i] = args[i].val
            ELSE \/ r[i] = Indeterminate
                 \/ /\ sig[i] # "I"
                    /\ \E j \in 1..Len(args) :
                         args[j].type = sig[i] /\ r[i] = args[j].val}

\* HudiJniReader::HudiJniReader, lines 40-101.
Construct ==
    /\ adapter = "none"
    /\ adapter' = "alive"
    /\ params' = AssembleParams(_scan_params, _hudi_params, _file_slot_descs)
    /\ \E r \in NewObjectReceives(ScannerCtorSignature,
                                   ScannerCtorArguments(params')) :
        jvm' = [loader_lookups |-> 1, instances |-> 1, received |-> r]
    /\ _jni_connector' = NewConnector
    /\ lastOp' = "construct"
    /\ lastStatus' = OK
    /\ calls' = <<>>
    /\ UNCHANGED <<inputs, _colname_to_value_range, colname_to_value_range,
                   forwarded, read_rows, eof, produced, name_to_type, missing_cols,
                   init_reader_calls, get_next_block_calls, errors>>

\* Mutant: init_reader that empties the caller's map once it has forwarded it.
init_reader_ranges_Clear(m, ranges) ==
    [stored |-> m, forwarded |-> m, ranges |-> [ranges EXCEPT ![m] = <<>>]]

\* Lines 121-122, the caller's map m among the caller's maps: its address is
\* stored and handed to init; no entry of it is read or written.
init_reader_ranges(m, ranges) ==
    [stored |-> m, forwarded |-> m, ranges |-> ranges]

\* A call of init_reader by the scan operator.
InitReader ==
    /\ adapter = "alive"
    /\ init_reader_calls < MaxInitCalls
    /\ \E m \in DOMAIN colname_to_value_range :
        LET q == init_reader_ranges(m, colname_to_value_range)
        IN  /\ _colname_to_value_range' = q.stored
            /\ forwarded' = q.forwarded
            /\ colname_to_value_range' = q.ranges
    /\ \E ri \in {OK, InitError}, ro \in {OK, OpenError} :
        LET r == init_reader(_jni_connector, ri, ro)
        IN  /\ _jni_connector' = r.conn
            /\ lastStatus' = r.st
            /\ calls' = r.calls
            /\ errors' = (IF r.st = OK THEN errors ELSE errors \cup {r.st})
    /\ lastOp' = "init_reader"
    /\ init_reader_calls' = init_reader_calls + 1
    /\ produced' = NoAnswer
    /\ UNCHANGED <<adapter, inputs, params, jvm, read_rows, eof, name_to_type,
                   missing_cols, get_next_block_calls>>

\* A call of get_next_block by the scan operator.
GetNextBlock ==
    /\ adapter = "alive"
    /\ get_next_block_calls < MaxNextCalls
    /\ \E nb \in NextAnswers(_jni_connector), rc \in {OK, CloseError} :
        LET r == get_next_block(_jni_connector,
                                [read_rows |-> read_rows, eof |-> eof], nb, rc)
        IN  /\ _jni_connector' = r.conn
            /\ read_rows' = r.out.read_rows
            /\ eof' = r.out.eof
            /\ produced' = (IF r.conn.next > _jni_connector.next
                            THEN nb ELSE NoAnswer)
            /\ lastStatus' = r.st
            /\ calls' = r.calls
            /\ errors' = (IF r.st = OK THEN errors ELSE errors \cup {r.st})
    /\ lastOp' = "get_next_block"
    /\ get_next_block_calls' = get_next_block_calls + 1
    /\ UNCHANGED <<adapter, inputs, params, jvm, _colname_to_value_range,
                   colname_to_value_range, forwarded, name_to_type,
                   missing_cols, init_reader_calls>>

\* A call of get_columns by the scan operator.
GetColumns ==
    /\ adapter = "alive"
    /\ LET r == get_columns(_file_slot_descs, name_to_type, missing_cols)
       IN  /\ name_to_type' = r.name_to_type
           /\ missing_cols' = r.missing_cols
           /\ lastStatus' = r.st
           /\ calls' = r.calls
    /\ lastOp' = "get_columns"
    /\ produced' = NoAnswer
    /\ UNCHANGED <<adapter, inputs, params, jvm, _jni_connector,
                   _colname_to_value_range, colname_to_value_range, forwarded,
                   read_rows, eof, init_reader_calls, get_next_block_calls,
                   errors>>

\* Mutant: teardown that leaves the connector as it is.
TeardownLeak(c, rc) == [conn |-> c, st |-> OK]

\* What teardown does to the connector: it closes it.
TeardownClose(c, rc) == JniClose(c, rc)

\* Teardown of the adapter: the connector is closed, whatever happened before.
Teardown ==
    /\ adapter = "alive"
    /\ adapter' = "destroyed"
    /\ \E rc \in {OK, CloseError} :
        LET r == TeardownClose(_jni_connector, rc)
        IN  /\ _jni_connector' = r.conn
            /\ lastStatus' = r.st
            /\ calls' = <<Call("close", r.st)>>
    /\ lastOp' = "teardown"
    /\ produced' = NoAnswer
    /\ UNCHANGED <<inputs, params, jvm, _colname_to_value_range,
                   colname_to_value_range, forwarded, read_rows, eof,
                   name_to_type, missing_cols, init_reader_calls,
                   get_next_block_calls, errors>>

Next == Construct \/ InitReader \/ GetNextBlock \/ GetColumns \/ Teardown

Spec == Init /\ [][Next]_vars

\* The scan operator always tears the adapter down in the end.
FairSpec == Spec /\ WF_vars(Teardown)

AssemblerNext == Construct \/ GetColumns

\* Where the other runtime can fail construction: a class or method is not
\* resolved (lines 71-87), or the scanner's constructor throws (line 99).
JniFailures == {"resolution", "constructor"}

\* What a call through a handle that was never created may do: return any
\* status, or end the process.
MissingHandleOutcomes ==
    {"crash", OK, InitError, OpenError, ReadError, CloseError, InvalidState}

\* HudiJniReader::HudiJniReader, lines 40-101, when the other runtime fails.
\* No JNI result is tested and a constructor returns no Status. A null class
\* or method id is passed on to the next JNI function, which is undefined:
\* the process ends there or construction runs on. Where it runs on, and when
\* the scanner's constructor throws, NewObject yields null, _jni_connector is
\* null and the constructor returns as it does on success.
ConstructFails ==
    /\ adapter = "none"
    /\ \E f \in JniFailures :
        /\ adapter' \in (IF f = "resolution" THEN {"crashed", "broken"}
                          ELSE {"broken"})
        /\ jvm' = [loader_lookups |-> (IF f = "resolution" THEN 0 ELSE 1),
                   instances |-> 0, received |-> <<>>]
    /\ params' = AssembleParams(_scan_params, _hudi_params, _file_slot_descs)
    /\ _jni_connector' = NoConnector
    /\ lastOp' = "construct"
    /\ lastStatus' = OK
    /\ calls' = <<>>
    /\ UNCHANGED <<inputs, _colname_to_value_range, colname_to_value_range,
                   forwarded, read_rows, eof, produced, name_to_type,
                   missing_cols, init_reader_calls, get_next_block_calls,
                   errors>>

\* init_reader, lines 119-124, on an adapter whose _jni_connector is null:
\* line 121 stores the map, line 122 calls init through the null handle.
InitReaderMissing ==
    /\ adapter = "broken"
    /\ init_reader_calls < MaxInitCalls
    /\ \E m \in DOMAIN colname_to_value_range :
        LET q == init_reader_ranges(m, colname_to_value_range)
        IN  /\ _colname_to_value_range' = q.stored
            /\ forwarded' = q.forwarded
            /\ colname_to_value_range' = q.ranges
    /\ \E o \in MissingHandleOutcomes :
        /\ adapter' = (IF o = "crash" THEN "crashed" ELSE adapter)
        /\ lastStatus' = (IF o = "crash" THEN lastStatus ELSE o)
        /\ calls' = <<Call("init", o)>>
        /\ errors' = (IF o \in {"crash", OK} THEN errors ELSE errors \cup {o})
    /\ lastOp' = "init_reader"
    /\ init_reader_calls' = init_reader_calls + 1
    /\ produced' = NoAnswer
    /\ UNCHANGED <<inputs, params, jvm, _jni_connector, read_rows, eof,
                   name_to_type, missing_cols, get_next_block_calls>>

\* get_next_block, lines 103-109, on an adapter whose _jni_connector is
\* null: line 104 calls get_nex_block through the null handle.
GetNextBlockMissing ==
    /\ adapter = "broken"
    /\ get_next_block_calls < MaxNextCalls
    /\ \E o \in MissingHandleOutcomes :
        /\ adapter' = (IF o = "crash" THEN "crashed" ELSE adapter)
        /\ lastStatus' = (IF o = "crash" THEN lastStatus ELSE o)
        /\ calls' = <<Call("get_nex_block", o)>>
        /\ errors' = (IF o \in {"crash", OK} THEN errors ELSE errors \cup {o})
    /\ lastOp' = "get_next_block"
    /\ get_next_block_calls' = get_next_block_calls + 1
    /\ produced' = NoAnswer
    /\ UNCHANGED <<inputs, params, jvm, _jni_connector,
                   _colname_to_value_range, colname_to_value_range, forwarded,
                   read_rows, eof, name_to_type, missing_cols,
                   init_reader_calls>>

\* The adapter with a construction that the other runtime may fail.
JniNext ==
    \/ Construct \/ ConstructFails
    \/ InitReader \/ InitReaderMissing
    \/ GetNextBlock \/ GetNextBlockMissing
    \/ GetColumns \/ Teardown

JniSpec == Init /\ [][JniNext]_vars

AssemblerSpec == AssemblerInit /\ [][AssemblerNext]_vars

\* ----------------------------------------------------------------- claims
\* The last adapter call was get_next_block and its nextBlock succeeded with
\* end-of-stream.
EofRead ==
    /\ lastOp = "get_next_block"
    /\ Len(calls) >= 1
    /\ calls[1] = Call("get_nex_block", OK)
    /\ eof

\* C1: a get_next_block call whose nextBlock succeeds with end-of-stream
\* invokes close on the connector in that same call, after nextBlock, and
\* leaves the connector closed, so that no teardown call is needed.
C1_EofClosesInSameCall ==
    EofRead =>
        /\ Len(calls) = 2
        /\ calls[2].op = "close"
        /\ _jni_connector.state = "closed"
        /\ _jni_connector.close = 1

C1_Witness ==
    /\ EofRead
    /\ calls = <<Call("get_nex_block", OK), Call("close", OK)>>
    /\ adapter = "alive"

\* The last adapter call was get_next_block, its nextBlock succeeded with
\* end-of-stream and its close failed.
EofCloseFailed ==
    /\ EofRead
    /\ Len(calls) = 2
    /\ calls[2] = Call("close", CloseError)

\* C2 as claimed: when close fails after an end-of-stream read, get_next_block
\* returns close's failure and the caller does not observe isEof = true.
C2_Original ==
    EofCloseFailed => (lastStatus = CloseError /\ eof = FALSE)

\* C2 as amended: when close fails after an end-of-stream read, get_next_block
\* returns close's failure; the out-parameter isEof stays true, and a
\* successful return with isEof = true happens only when close succeeded in
\* that call.
C2_CloseFailureReturned ==
    /\ EofCloseFailed => (lastStatus = CloseError /\ eof = TRUE)
    /\ (EofRead /\ lastStatus = OK) =>
        (Len(calls) = 2 /\ calls[2] = Call("close", OK))

C2_Witness == EofCloseFailed /\ lastStatus = CloseError /\ adapter = "alive"

\* The last adapter call reported a failure of init, open or nextBlock.
ErrorReported ==
    /\ lastOp \in {"init_reader", "get_next_block"}
    /\ lastStatus \in {InitError, OpenError, ReadError}

\* The adapter is gone and the remote reader was closed exactly once.
ClosedOnce ==
    /\ adapter = "destroyed"
    /\ _jni_connector.state = "closed"
    /\ _jni_connector.close = 1

\* C3: after init, open or nextBlock has failed, the remote reader is still
\* closed in the end, exactly once; and once open has failed, nextBlock is
\* never invoked on the remote reader.
C3_ErrorThenClosedOnce ==
    /\ [](ErrorReported => <>ClosedOnce)
    /\ [](_jni_connector.close <= 1)
    /\ [](OpenError \in errors => _jni_connector.next = 0)

C3_Witness ==
    /\ ClosedOnce
    /\ errors = {OpenError, InvalidState}
    /\ get_next_block_calls >= 1
    /\ _jni_connector.open = 1
    /\ _jni_connector.next = 0

\* C4: over a lifetime the remote reader is closed exactly once: never twice,
\* once by the time the adapter is torn down, and before teardown only by a
\* get_next_block that read end-of-stream.
C4_ClosedExactlyOnce ==
    /\ _jni_connector.close <= 1
    /\ adapter = "destroyed" => ClosedOnce
    /\ (adapter = "alive" /\ _jni_connector.close = 1) => eof

C4_Witness ==
    /\ ClosedOnce
    /\ lastOp = "teardown"
    /\ ~eof
    /\ _jni_connector.delivered >= 1
    /\ errors = {}

\* C5: a get_next_block call on a closed connector (after end-of-stream was
\* read) fails with the invalid-state error, leaves the caller's read_rows and
\* eof as they were, and invokes nothing on the remote reader.
C5_NoReadAfterEof ==
    [][(/\ _jni_connector.state = "closed"
        /\ get_next_block_calls' = get_next_block_calls + 1)
       => (/\ lastStatus' = InvalidState
           /\ read_rows' = read_rows
           /\ eof' = eof
           /\ _jni_connector' = _jni_connector)]_vars

C5_Witness ==
    /\ lastOp = "get_next_block"
    /\ lastStatus = InvalidState
    /\ _jni_connector.state = "closed"
    /\ eof
    /\ adapter = "alive"

\* C6: init_reader invokes init, then open, each at most once; a failing init
\* is returned and open is not invoked; otherwise what open returns is
\* returned.
C6_InitThenOpen ==
    lastOp = "init_reader" =>
        /\ Len(calls) \in {1, 2}
        /\ calls[1].op = "init"
        /\ calls[1].st # OK => (Len(calls) = 1 /\ lastStatus = calls[1].st)
        /\ calls[1].st = OK =>
            (Len(calls) = 2 /\ calls[2].op = "open" /\ lastStatus = calls[2].st)
        /\ lastStatus = OK => \A i \in 1..Len(calls) : calls[i].st = OK

C6_Witness ==
    /\ lastOp = "init_reader"
    /\ calls = <<Call("init", OK), Call("open", OpenError)>>
    /\ lastStatus = OpenError

\* C7: in a run without errors, k batches then end-of-stream: while no
\* end-of-stream was read, every get_next_block call returned a batch and
\* close was not invoked; the call that reads end-of-stream is call k + 1 and
\* returns only after close succeeded; close is invoked once over the run.
C7_NormalStream ==
    errors = {} =>
        /\ _jni_connector.close <= 1
        /\ (adapter = "alive" /\ ~eof) =>
            /\ get_next_block_calls = _jni_connector.delivered
            /\ _jni_connector.close = 0
        /\ (lastOp = "get_next_block" /\ ~eof) =>
            (calls = <<Call("get_nex_block", OK)>> /\ lastStatus = OK)
        /\ eof =>
            /\ get_next_block_calls = _jni_connector.delivered + 1
            /\ _jni_connector.close = 1
            /\ _jni_connector.state = "closed"
        /\ (lastOp = "get_next_block" /\ eof) =>
            /\ calls = <<Call("get_nex_block", OK), Call("close", OK)>>
            /\ lastStatus = OK

C7_Witness ==
    /\ errors = {}
    /\ lastOp = "get_next_block"
    /\ eof
    /\ get_next_block_calls = 4
    /\ _jni_connector.delivered = 3

\* C8: close on a connector that is already closed (teardown after the close
\* of end-of-stream) returns no error and changes nothing of the connector or
\* the remote reader.
C8_CloseIdempotent ==
    [][(_jni_connector.state = "closed" /\ lastOp' = "teardown")
       => (lastStatus' = OK /\ _jni_connector' = _jni_connector)]_vars

C8_Witness ==
    /\ lastOp = "teardown"
    /\ eof
    /\ lastStatus = OK
    /\ _jni_connector.close = 1

\* C9: get_columns, in any lifecycle state, invokes nothing on the connector,
\* leaves the connector and the remote reader as they were, returns success
\* and leaves missing_cols unchanged.
C9_GetColumnsLocal ==
    [][lastOp' = "get_columns"
       => (/\ _jni_connector' = _jni_connector
           /\ calls' = <<>>
           /\ lastStatus' = OK
           /\ missing_cols' = missing_cols)]_vars

C9_Witness ==
    /\ lastOp = "get_columns"
    /\ _jni_connector.state = "closed"
    /\ missing_cols = {"ghost"}
    /\ "id" \in DOMAIN name_to_type

\* C10: the assembled map holds every reserved key with the value derived from
\* the scan parameters, every storage property under "hadoop_fs." + key and
\* nothing else: 10 entries plus one per storage property.
C10_ParameterMapKeys ==
    adapter # "none" =>
        LET props == _scan_params.properties
            h == _hudi_params
        IN  /\ DOMAIN params =
                ReservedKeys \cup {"hadoop_fs." \o k : k \in DOMAIN props}
            /\ \A k \in DOMAIN props : params["hadoop_fs." \o k] = props[k]
            /\ params["base_path"] = h.base_path
            /\ params["data_file_path"] = h.data_file_path
            /\ params["data_file_length"] = to_string(h.data_file_length)
            /\ params["delta_file_paths"] = join(h.delta_logs, ",")
            /\ params["hudi_column_names"] = join(h.column_names, ",")
            /\ params["hudi_column_types"] = join(h.column_types, "#")
            /\ params["required_fields"] =
                join(required_fields(_file_slot_descs), ",")
            /\ params["instant_time"] = h.instant_time
            /\ params["serde"] = h.serde
            /\ params["input_format"] = h.input_format
            /\ Cardinality(DOMAIN params) = 10 + Cardinality(DOMAIN props)

C10_Witness ==
    /\ adapter = "alive"
    /\ {"base_path", "serde", "hadoop_fs.base_path"} \subseteq
           DOMAIN _scan_params.properties
    /\ _scan_params.properties["base_path"] = "/u"
    /\ params["base_path"] = "/t"
    /\ params["hadoop_fs.base_path"] = "/u"
    /\ params["hadoop_fs.hadoop_fs.base_path"] = "v"

\* The string s holds the one-character string d.
Contains(s, d) == \E i \in 1..Len(s) : SubSeq(s, i, i) = d

\* s split on the one-character delimiter d: one piece more than s holds
\* delimiters.
RECURSIVE Split(_, _)
Split(s, d) ==
    IF ~Contains(s, d) THEN <<s>>
    ELSE LET i == CHOOSE k \in 1..Len(s) :
                      /\ SubSeq(s, k, k) = d
                      /\ \A j \in 1..(k - 1) : SubSeq(s, j, j) # d
         IN  <<SubSeq(s, 1, i - 1)>> \o Split(SubSeq(s, i + 1, Len(s)), d)

\* C11 as claimed: for N names and N types, N >= 0, splitting
\* hudi_column_types on '#' gives the N types in order and splitting
\* hudi_column_names on ',' gives the N names in order.
C11_Original ==
    adapter # "none" =>
        /\ Split(params["hudi_column_types"], "#") = _hudi_params.column_types
        /\ Split(params["hudi_column_names"], ",") = _hudi_params.column_names

\* No element of the list v holds the delimiter d.
DelimiterFree(v, d) == \A i \in 1..Len(v) : ~Contains(v[i], d)

\* C11 as amended: the same for N >= 1, when no type holds '#' and no name
\* holds ','.
C11_SplitRoundTrip ==
    (/\ adapter # "none"
     /\ Len(_hudi_params.column_names) >= 1
     /\ DelimiterFree(_hudi_params.column_types, "#")
     /\ DelimiterFree(_hudi_params.column_names, ","))
    => LET ts == Split(params["hudi_column_types"], "#")
           ns == Split(params["hudi_column_names"], ",")
       IN  /\ Len(ts) = Len(_hudi_params.column_types)
           /\ Len(ns) = Len(ts)
           /\ \A i \in 1..Len(ts) :
                /\ ts[i] = _hudi_params.column_types[i]
                /\ ns[i] = _hudi_params.column_names[i]

C11_Witness ==
    /\ adapter = "alive"
    /\ _hudi_params.column_types = <<"map<int,int>", "", "int">>
    /\ params["hudi_column_types"] = "map<int,int>##int"
    /\ Split(params["hudi_column_types"], "#") = <<"map<int,int>", "", "int">>
    /\ Split(params["hudi_column_names"], ",") = <<"a", "b", "c">>

\* The elements of the list v.
Range(v) == {v[i] : i \in 1..Len(v)}

\* The column names of the slot descriptors, in the caller's order.
Projection == [i \in 1..Len(_file_slot_descs) |-> _file_slot_descs[i].col_name]

\* C12 as claimed: required_fields is the comma-join of the requested names in
\* the caller's order, and every requested name is a column name of the scan
\* parameters.
C12_Original ==
    adapter # "none" =>
        /\ params["required_fields"] = join(Projection, ",")
        /\ Range(Projection) \subseteq Range(_hudi_params.column_names)

\* C12 as amended: required_fields is the comma-join of the slot descriptors'
\* names in the caller's order; split on ',' it gives back those names in that
\* order (when there is one at least and none holds ','), and they are column
\* names of the scan parameters when the slot descriptors' names are.
C12_ProjectionOrder ==
    adapter # "none" =>
        /\ params["required_fields"] = join(Projection, ",")
        /\ (Len(Projection) >= 1 /\ DelimiterFree(Projection, ",")) =>
              Split(params["required_fields"], ",") = Projection
        /\ (/\ Len(Projection) >= 1
            /\ Range(Projection) \subseteq Range(_hudi_params.column_names)
            /\ DelimiterFree(Projection, ",")) =>
              Range(Split(params["required_fields"], ","))
                  \subseteq Range(_hudi_params.column_names)

C12_Witness ==
    /\ adapter = "alive"
    /\ _hudi_params.column_names = <<"a", "b", "c">>
    /\ Projection = <<"c", "a">>
    /\ params["required_fields"] = "c,a"

\* The position of a connector state in the lifecycle.
Rank(st) ==
    CASE st = "null" -> 0 [] st = "constructed" -> 1 [] st = "initialized" -> 2
      [] st = "opened" -> 3 [] st = "draining" -> 4 [] st = "closed" -> 5

\* A step that is a get_next_block call out of lifecycle order.
NextOutOfOrder ==
    /\ get_next_block_calls' = get_next_block_calls + 1
    /\ _jni_connector.state \notin {"opened", "draining"}

\* A step that is an init_reader call out of lifecycle order.
InitOutOfOrder ==
    /\ init_reader_calls' = init_reader_calls + 1
    /\ _jni_connector.state # "constructed"

\* What an out-of-order call leaves alone in the bridge: the connector, the
\* remote reader and the caller's out-parameters.
BridgeUntouched ==
    /\ lastStatus' = InvalidState
    /\ _jni_connector' = _jni_connector
    /\ read_rows' = read_rows
    /\ eof' = eof
    /\ colname_to_value_range' = colname_to_value_range

\* The connector only moves forward through constructed, initialized, opened,
\* draining, closed, and teardown closes it from every state.
LifecycleOrder ==
    /\ [][Rank(_jni_connector'.state) >= Rank(_jni_connector.state)]_vars
    /\ [][lastOp' = "teardown" => _jni_connector'.state = "closed"]_vars
    /\ [](adapter = "alive" => ENABLED Teardown)

\* C13 as claimed: an operation out of lifecycle order fails with the
\* invalid-state error and has no other effect at all.
C13_Original ==
    [][(NextOutOfOrder \/ InitOutOfOrder)
       => (/\ BridgeUntouched
           /\ _colname_to_value_range' = _colname_to_value_range)]_vars

\* C13 as amended: the connector follows the lifecycle; an operation out of
\* order fails with the invalid-state error and changes nothing of the
\* connector, the remote reader or the caller's data (a rejected init_reader
\* has still stored the address of the map it was given, and tried init
\* only); close is possible from every state that is not closed.
C13_OutOfOrderRejected ==
    /\ [][NextOutOfOrder => BridgeUntouched]_vars
    /\ [][InitOutOfOrder =>
            (BridgeUntouched /\ calls' = <<Call("init", InvalidState)>>)]_vars
    /\ LifecycleOrder

C13_Witness ==
    /\ lastOp = "init_reader"
    /\ lastStatus = InvalidState
    /\ init_reader_calls = 2
    /\ _jni_connector.state = "draining"
    /\ _colname_to_value_range = "ranges_b"
    /\ read_rows >= 1

\* C14: init_reader and get_next_block return the error of the connector
\* method that failed, invoke nothing after it, invoke no connector method
\* twice in one call, and no call makes the remote reader run an operation
\* more than once.
C14_ErrorsPropagate ==
    /\ [](lastOp \in {"init_reader", "get_next_block"} =>
            /\ Len(calls) >= 1
            /\ lastStatus = calls[Len(calls)].st
            /\ \A i \in 1..(Len(calls) - 1) : calls[i].st = OK
            /\ \A i, j \in 1..Len(calls) : i # j => calls[i].op # calls[j].op)
    /\ [][/\ _jni_connector'.init <= _jni_connector.init + 1
          /\ _jni_connector'.open <= _jni_connector.open + 1
          /\ _jni_connector'.next <= _jni_connector.next + 1
          /\ _jni_connector'.close <= _jni_connector.close + 1]_vars

C14_Witness ==
    /\ lastOp = "get_next_block"
    /\ lastStatus = ReadError
    /\ calls = <<Call("get_nex_block", ReadError)>>
    /\ _jni_connector.next = 2
    /\ _jni_connector.delivered = 1

\* C17: no adapter operation changes an entry of a predicate map of the
\* caller; init_reader stores the address of the map it is given and hands
\* that map to init; nothing is stored or handed on before the first
\* init_reader, nor by any other operation.
C17_RangesUntouched ==
    /\ [][colname_to_value_range' = colname_to_value_range]_vars
    /\ [][(\/ forwarded' # forwarded
           \/ _colname_to_value_range' # _colname_to_value_range)
          => init_reader_calls' = init_reader_calls + 1]_vars
    /\ [](init_reader_calls = 0 =>
            (_colname_to_value_range = "nullptr" /\ forwarded = "nullptr"))
    /\ [](lastOp = "init_reader" =>
            /\ forwarded \in DOMAIN colname_to_value_range
            /\ _colname_to_value_range = forwarded)

C17_Witness ==
    /\ lastOp = "get_next_block"
    /\ read_rows >= 1
    /\ _colname_to_value_range = "ranges_a"
    /\ forwarded = "ranges_a"
    /\ colname_to_value_range["ranges_a"]["id"] = "[1,9]"

\* The type of the first slot descriptor named k.
FirstType(k) ==
    LET i == CHOOSE n \in 1..Len(_file_slot_descs) :
                 /\ _file_slot_descs[n].col_name = k
                 /\ \A j \in 1..(n - 1) : _file_slot_descs[j].col_name # k
    IN  _file_slot_descs[i].type

\* C19: get_columns keeps every entry of name_to_type with its type, adds the
\* name of every slot descriptor that was absent with the type of the first
\* descriptor of that name, and a second call changes nothing more.
C19_EmplaceOnly ==
    /\ [][lastOp' = "get_columns" =>
            /\ \A k \in DOMAIN name_to_type :
                 k \in DOMAIN name_to_type' /\ name_to_type'[k] = name_to_type[k]
            /\ DOMAIN name_to_type' =
                 DOMAIN name_to_type \cup Range(Projection)
            /\ \A k \in DOMAIN name_to_type' \ DOMAIN name_to_type :
                 name_to_type'[k] = FirstType(k)]_vars
    /\ [](lastOp = "get_columns" =>
            get_columns(_file_slot_descs, name_to_type, missing_cols).name_to_type
                = name_to_type)

C19_Witness ==
    /\ lastOp = "get_columns"
    /\ _file_slot_descs = <<Slot("name", "string"), Slot("id", "int")>>
    /\ name_to_type = [k \in {"id", "name"} |-> "string"]

\* C18: a get_next_block call that returns OK asked the remote reader for
\* one batch and leaves in *read_rows and *eof exactly what that nextBlock
\* answered; when the answer was not end-of-stream the call invoked nothing
\* else on the connector.
C18_OutputsPassThrough ==
    /\ [](lastOp = "get_next_block" /\ lastStatus = OK =>
            /\ produced # NoAnswer
            /\ read_rows = produced.rows
            /\ eof = produced.eof
            /\ calls[1] = Call("get_nex_block", OK))
    /\ [](lastOp = "get_next_block" /\ produced # NoAnswer /\ ~produced.eof =>
            Len(calls) = 1)
    /\ [][get_next_block_calls' = get_next_block_calls + 1 =>
            /\ _jni_connector'.next <= _jni_connector.next + 1
            /\ _jni_connector'.init = _jni_connector.init
            /\ _jni_connector'.open = _jni_connector.open]_vars

C18_Witness ==
    /\ lastOp = "get_next_block"
    /\ lastStatus = OK
    /\ produced = [st |-> OK, rows |-> 0, eof |-> TRUE]
    /\ read_rows = 0
    /\ eof
    /\ _jni_connector.delivered = 2

\* C16: once the adapter is constructed the loader has been asked for the
\* reader class once, one remote reader exists, its constructor has received
\* the assembled ParameterMap, and construction has run no init, open or
\* nextBlock; no later call changes any of this.
C16_Original ==
    adapter \in {"alive", "destroyed"} =>
        /\ jvm.loader_lookups = 1
        /\ jvm.instances = 1
        /\ params = AssembleParams(_scan_params, _hudi_params, _file_slot_descs)
        /\ jvm.received[Len(ScannerCtorSignature)] = params
        /\ (lastOp = "construct" =>
              /\ _jni_connector.init = 0
              /\ _jni_connector.open = 0
              /\ _jni_connector.next = 0)

\* The status the specification asks for when construction fails.
BridgeInitFailed == "BridgeInitFailed"

\* C15: when the other runtime fails construction, the caller is told so by a
\* bridge-initialization-failed error, and no init, open or nextBlock is
\* called afterwards on the reader that does not exist.
C15_Original ==
    adapter \in {"broken", "crashed"} =>
        /\ lastOp = "construct" => lastStatus = BridgeInitFailed
        /\ jvm.instances = 0 => calls = <<>>

====
